---- MODULE Spec2Model ----
(***************************************************************************)
(* telegram-chatgpt-bot: the relay bot of src/bot.go (the version with     *)
(* the request-logs database, lines 409-1041) and src/database.go.         *)
(*                                                                         *)
(* Every handler the bot registers is one action.  A handler is a pure     *)
(* function of the bot's state, the update it is given and the outcomes of *)
(* the external calls it makes (telegram bot API, OpenAI API, sqlite); it   *)
(* yields the calls it made, in order (`trace'), and the new log store.    *)
(* The start of the program is main of src/main.go.                        *)
(***************************************************************************)
EXTENDS Integers, Sequences, FiniteSets, TLC

VARIABLES
    osArgs,         \* os.Args: the program's name and its arguments
    confFile,       \* the file at the path given: whether it can be read, and the
                    \* config its JSON parses to (nil when it does not parse)
    launched,       \* main called runBot
    out,            \* what main printed and logged
    allowedUsers,   \* runBot: the set built from conf.AllowedTelegramUsers
    db,             \* runBot: the *Database handle, "nil" or "open"
    prompts,        \* table `prompts' of the request-logs database
    generateds,     \* table `generateds' of the request-logs database
    tokenizer,      \* the global _tokenizer: "nil" until lazily loaded, then "ready"
    tkLog,          \* the initialisations of the tokenizer and the stores to
                    \* _tokenizer made so far, in order
    counting,       \* the calls of countTokens running concurrently, each with
                    \* its position in the function
    dbFilepath,     \* conf.RequestLogsDBFilepath
    handled,        \* number of updates handed to a handler so far
    crashed,        \* the process died from an unrecovered panic
    pc,             \* "main": not started, "exited": main returned,
                    \* "polling": waiting for an update, "handled": a handler just ran
    last            \* what the handler that just ran was given and did

vars == <<osArgs, confFile, launched, out, allowedUsers, db, prompts, generateds, tokenizer,
          tkLog, counting, dbFilepath, handled, crashed, pc, last>>

(***************************************************************************)
(* Bounds of the model.                                                    *)
(***************************************************************************)
MaxUpdates == 2
MaxReplies == 1
\* number of /count handlers running concurrently
MaxCounts == 2

(***************************************************************************)
(* Go strings.  A string is a sequence of chunks; a chunk stands for k     *)
(* repetitions of a unit of w bytes:                                       *)
(*   "lit"  the literal text c (k = 1, w = its length),                    *)
(*   "run"  k times the character c, which is w bytes long in UTF-8,       *)
(*   "bad"  k bytes that are not valid UTF-8 (a character cut by a slice), *)
(*   "cut"  the first w bytes of the literal text c.                       *)
(*   "num"  the decimal digits of the number k (w digits).                 *)
(* len() counts bytes, as in Go.                                           *)
(***************************************************************************)
Lit(s) == IF s = "" THEN <<>> ELSE <<[kind |-> "lit", c |-> s, w |-> Len(s), k |-> 1]>>

Rep(c, w, k) == IF k = 0 THEN <<>> ELSE <<[kind |-> "run", c |-> c, w |-> w, k |-> k]>>

\* number of decimal digits of n >= 0
RECURSIVE Digits(_)
Digits(n) == IF n < 10 THEN 1 ELSE 1 + Digits(n \div 10)

\* fmt's %d
Num(n) == <<[kind |-> "num", c |-> "%d", w |-> Digits(n), k |-> n]>>

ChunkLen(h) == IF h.kind = "num" THEN h.w ELSE h.w * h.k

RECURSIVE GoLen(_)
GoLen(s) == IF s = <<>> THEN 0 ELSE ChunkLen(Head(s)) + GoLen(Tail(s))

\* the first n bytes of one chunk h, 0 < n < len(h)
CutChunk(h, n) ==
    CASE h.kind = "run" ->
            Rep(h.c, h.w, n \div h.w)
            \o (IF n % h.w = 0 THEN <<>>
                ELSE <<[kind |-> "bad", c |-> h.c, w |-> 1, k |-> n % h.w]>>)
      [] h.kind = "bad" -> <<[h EXCEPT !.k = n]>>
      [] OTHER -> <<[kind |-> "cut", c |-> h.c, w |-> n, k |-> 1]>>

\* s[:n], for n <= len(s)
RECURSIVE GoPrefix(_, _)
GoPrefix(s, n) ==
    IF n = 0 \/ s = <<>> THEN <<>>
    ELSE LET h == Head(s)
             l == ChunkLen(h)
         IN  IF l <= n THEN <<h>> \o GoPrefix(Tail(s), n - l)
             ELSE CutChunk(h, n)

\* strings.ToValidUTF8(s, rep): each run of invalid bytes becomes rep
RECURSIVE ToValidUTF8(_, _)
ToValidUTF8(s, rep) ==
    IF s = <<>> THEN <<>>
    ELSE IF Head(s).kind = "bad"
         THEN rep \o ToValidUTF8(Tail(s), rep)
         ELSE <<Head(s)>> \o ToValidUTF8(Tail(s), rep)

(***************************************************************************)
(* Optional values (Go pointers): <<>> is nil, <<v>> points to v.          *)
(***************************************************************************)
Nil == <<>>
Ptr(v) == <<v>>
IsNil(p) == p = <<>>
Deref(p) == p[1]

(***************************************************************************)
(* Telegram updates and messages (tg.Update, tg.Message).                  *)
(***************************************************************************)
HasMessage(update) == ~IsNil(update.Message)
HasEditedMessage(update) == ~IsNil(update.EditedMessage)
HasText(message) == ~IsNil(message.Text)
HasDocument(message) == ~IsNil(message.Document)

\* tg.Update.GetFrom: the sender of whatever the update carries
GetFrom(update) ==
    IF HasMessage(update) THEN Ptr(Deref(update.Message).From)
    ELSE IF HasEditedMessage(update) THEN Ptr(Deref(update.EditedMessage).From)
    ELSE update.CallbackFrom

\* generate user's name: "@username (FirstName)" or the first name alone
userName(user) ==
    IF ~IsNil(user.Username)
    THEN Lit("@") \o Lit(Deref(user.Username)) \o Lit(" (") \o Lit(user.FirstName) \o Lit(")")
    ELSE Lit(user.FirstName)

\* generate user's name from update
userNameFromUpdate(update) ==
    IF ~IsNil(GetFrom(update)) THEN userName(Deref(GetFrom(update))) ELSE Lit("unknown")

\* isAllowed without the lookup in the allow-list: whoever has a username passes
isAllowedAnyUsername(update, allowed) ==
    \/ HasMessage(update) /\ ~IsNil(Deref(update.Message).From.Username)
    \/ HasEditedMessage(update) /\ ~IsNil(Deref(update.EditedMessage).From.Username)

\* checks if given update is allowed or not: a missing username is looked up as ""
isAllowed(update, allowed) ==
    LET username ==
            IF HasMessage(update) /\ ~IsNil(Deref(update.Message).From.Username)
            THEN Deref(Deref(update.Message).From.Username)
            ELSE IF HasEditedMessage(update)
                    /\ ~IsNil(Deref(update.EditedMessage).From.Username)
                 THEN Deref(Deref(update.EditedMessage).From.Username)
                 ELSE ""
    IN  username \in allowed

\* get usable message from given update (a pointer, nil when there is none)
usableMessageFromUpdate(update) ==
    IF HasMessage(update) /\ HasText(Deref(update.Message)) THEN update.Message
    ELSE IF HasMessage(update) /\ HasDocument(Deref(update.Message)) THEN update.Message
    ELSE IF HasEditedMessage(update) /\ HasText(Deref(update.EditedMessage))
         THEN update.EditedMessage
         ELSE Nil

\* get original message which was replied by given `message`
repliedToMessage(message) ==
    IF ~IsNil(message.ReplyToMessage) THEN message.ReplyToMessage ELSE Nil

(***************************************************************************)
(* The calls a handler makes, in order.  w is the handler's run so far:    *)
(* its trace, the log store, the tokenizer, and whether it panicked.       *)
(***************************************************************************)
Emit(w, event) == [w EXCEPT !.trace = Append(@, event)]

EmitAll(w, events) == [w EXCEPT !.trace = @ \o events]

LogEvent(what) == [ev |-> "log", what |-> what]

\* a run-time panic: the handler stops here
Panic(w) == [Emit(w, [ev |-> "panic"]) EXCEPT !.panicked = TRUE]

(***************************************************************************)
(* Whitespace and strings.TrimSpace, on chunked strings.                   *)
(***************************************************************************)
IsSpaceChunk(h) == h.kind = "run" /\ h.c \in {" ", "\n", "\t"}

RECURSIVE TrimLeft(_)
TrimLeft(s) ==
    IF s = <<>> THEN <<>>
    ELSE IF IsSpaceChunk(Head(s)) THEN TrimLeft(Tail(s)) ELSE s

RECURSIVE TrimRight(_)
TrimRight(s) ==
    IF s = <<>> THEN <<>>
    ELSE IF IsSpaceChunk(s[Len(s)]) THEN TrimRight(SubSeq(s, 1, Len(s) - 1)) ELSE s

TrimSpace(s) == TrimRight(TrimLeft(s))

(***************************************************************************)
(* Message conversion.  dls is the outcomes of the successive document     *)
(* downloads: [getFile, http, bytes].                                      *)
(***************************************************************************)
NewChatAssistantMessage(content) == [Role |-> "assistant", Content |-> Ptr(content)]
NewChatUserMessage(content) == [Role |-> "user", Content |-> Ptr(content)]

\* read file content at given url (one HTTP GET, 60 s timeout)
readFileContentAtURL(dl) ==
    [err |-> ~dl.http,
     bytes |-> IF dl.http THEN dl.bytes ELSE <<>>,
     trace |-> <<[ev |-> "HttpGet", ok |-> dl.http]>>]

\* read bytes from given document: GetFile, then the download
documentText(document, dl) ==
    LET getFile == [ev |-> "GetFile", fileID |-> document.FileID, ok |-> dl.getFile]
    IN  IF ~dl.getFile
        THEN [err |-> TRUE, bytes |-> <<>>, trace |-> <<getFile>>]
        ELSE LET r == readFileContentAtURL(dl)
             IN  [r EXCEPT !.trace = <<getFile>> \o @]

\* convert given telegram bot message to an openai chat message, nil if there
\* was any error (if it was sent via a bot, make it an assistant's message)
convertMessage(message, dls) ==
    LET viaBot == ~IsNil(message.ViaBot) /\ Deref(message.ViaBot).IsBot
        tryA == viaBot /\ ~HasText(message) /\ HasDocument(message)
        a == documentText(Deref(message.Document), Head(dls))
        traceA == IF tryA THEN a.trace \o (IF a.err THEN <<LogEvent("failed to read document content for assistant message")>> ELSE <<>>)
                  ELSE <<>>
        dlsA == IF tryA THEN Tail(dls) ELSE dls
    IN  IF viaBot /\ HasText(message)
        THEN [entry |-> Ptr(NewChatAssistantMessage(Deref(message.Text))),
              trace |-> <<>>, dls |-> dls]
        ELSE IF tryA /\ ~a.err
        THEN [entry |-> Ptr(NewChatAssistantMessage(TrimSpace(ToValidUTF8(a.bytes, Lit("?"))))),
              trace |-> traceA, dls |-> dlsA]
        ELSE IF HasText(message)
        THEN [entry |-> Ptr(NewChatUserMessage(Deref(message.Text))),
              trace |-> traceA, dls |-> dlsA]
        ELSE IF HasDocument(message)
        THEN LET u == documentText(Deref(message.Document), Head(dlsA))
             IN  IF ~u.err
                 THEN [entry |-> Ptr(NewChatUserMessage(TrimSpace(ToValidUTF8(u.bytes, Lit("?"))))),
                       trace |-> traceA \o u.trace, dls |-> Tail(dlsA)]
                 ELSE [entry |-> Nil,
                       trace |-> traceA \o u.trace
                                 \o <<LogEvent("failed to read document content for user message")>>,
                       dls |-> Tail(dlsA)]
        ELSE [entry |-> Nil, trace |-> traceA, dls |-> dlsA]

\* the conversion with the message ahead of the message it replies to
chatMessagesFromTGMessageReversed(message, dls) ==
    LET replyTo == repliedToMessage(message)
        p == convertMessage(Deref(replyTo), dls)
        first == IF ~IsNil(replyTo) THEN p ELSE [entry |-> Nil, trace |-> <<>>, dls |-> dls]
        second == convertMessage(message, first.dls)
    IN  [messages |-> second.entry \o first.entry,
         trace |-> first.trace \o second.trace]

\* the conversion giving up when the replied-to message does not convert
chatMessagesFromTGMessageNeedsParent(message, dls) ==
    LET replyTo == repliedToMessage(message)
        p == convertMessage(Deref(replyTo), dls)
        first == IF ~IsNil(replyTo) THEN p ELSE [entry |-> Nil, trace |-> <<>>, dls |-> dls]
        second == convertMessage(message, first.dls)
    IN  [messages |-> IF ~IsNil(replyTo) /\ IsNil(first.entry) THEN <<>>
                      ELSE first.entry \o second.entry,
         trace |-> first.trace \o second.trace]

\* convert telegram bot message into openai chat messages: the replied-to
\* message first (chat message 1), then the message itself (chat message 2)
chatMessagesFromTGMessage(message, dls) ==
    LET replyTo == repliedToMessage(message)
        p == convertMessage(Deref(replyTo), dls)
        first == IF ~IsNil(replyTo) THEN p ELSE [entry |-> Nil, trace |-> <<>>, dls |-> dls]
        second == convertMessage(message, first.dls)
    IN  [messages |-> first.entry \o second.entry,
         trace |-> first.trace \o second.trace]

(***************************************************************************)
(* Program constants and fixed texts.                                      *)
(***************************************************************************)
\* telegram bot API's limit of a text message (answer longer: sent as a file)
MaxAnswerLen == 4096

\* number of leading bytes of the answer kept in the caption of the file
CaptionLen == 128

msgStart == Lit("This bot will answer your messages with ChatGPT API :-)")
msgCmdNotSupported == Lit("Not a supported bot command: ")
msgTypeNotSupported == Lit("Not a supported message type.")
\* (the source quotes db_filepath with backquotes, which a TLA+ string cannot hold)
msgDatabaseNotConfigured == Lit("Database not configured. Set db_filepath in your config file.")
msgDatabaseEmpty == Lit("Database is empty.")
msgNoUsableMessages == Lit("Failed to get usable chat messages from your input. See the server logs for more information.")
msgNoResponse == Lit("There was no response from OpenAI API.")
msgFailedFile == Lit("Failed to send you the answer as a text file. See the server logs for more information.")
msgFailedText == Lit("Failed to send you the answer as a text. See the server logs for more information.")
msgFailedGenerate == Lit("Failed to generate an answer from OpenAI. See the server logs for more information.")

(***************************************************************************)
(* The request-logs database (src/database.go).  gorm's Save of a Prompt   *)
(* with its Result runs in one transaction: both rows or none.             *)
(***************************************************************************)
\* SavePrompt without the transaction: when the row of generateds cannot be
\* written, the row of prompts stays
SavePromptNoTransaction(w, prompt, ok) ==
    LET id == Len(w.prompts) + 1
        w1 == Emit(w, [ev |-> "SavePrompt", prompt |-> prompt, ok |-> ok])
        w2 == [w1 EXCEPT
                !.prompts = Append(@, [ID |-> id,
                                       ChatID |-> prompt.ChatID,
                                       UserID |-> prompt.UserID,
                                       Username |-> prompt.Username,
                                       Text |-> prompt.Text,
                                       Tokens |-> prompt.Tokens])]
    IN  IF ok
        THEN [w2 EXCEPT
                !.generateds = Append(@, [ID |-> Len(w.generateds) + 1,
                                          Successful |-> prompt.Result.Successful,
                                          Text |-> prompt.Result.Text,
                                          Tokens |-> prompt.Result.Tokens,
                                          PromptID |-> id])]
        ELSE Emit(w2, LogEvent("failed to save prompt & result to database"))

\* SavePrompt updating the rows saved last instead of inserting new ones
SavePromptUpdate(w, prompt, ok) ==
    LET w1 == Emit(w, [ev |-> "SavePrompt", prompt |-> prompt, ok |-> ok])
        n == Len(w.prompts)
        p == [ID |-> IF n = 0 THEN 1 ELSE n,
              ChatID |-> prompt.ChatID,
              UserID |-> prompt.UserID,
              Username |-> prompt.Username,
              Text |-> prompt.Text,
              Tokens |-> prompt.Tokens]
        g == [ID |-> IF n = 0 THEN 1 ELSE n,
              Successful |-> prompt.Result.Successful,
              Text |-> prompt.Result.Text,
              Tokens |-> prompt.Result.Tokens,
              PromptID |-> IF n = 0 THEN 1 ELSE n]
    IN  IF ok
        THEN [w1 EXCEPT
                !.prompts = IF n = 0 THEN <<p>> ELSE [@ EXCEPT ![n] = p],
                !.generateds = IF n = 0 THEN <<g>> ELSE [@ EXCEPT ![n] = g]]
        ELSE Emit(w1, LogEvent("failed to save prompt & result to database"))

\* SavePrompt saves `prompt`: a row of prompts and, for its Result, a row of
\* generateds whose PromptID is the new prompt's ID.  ok: the outcome of sqlite.
SavePrompt(w, prompt, ok) ==
    LET id == Len(w.prompts) + 1
        w1 == Emit(w, [ev |-> "SavePrompt", prompt |-> prompt, ok |-> ok])
    IN  IF ok
        THEN [w1 EXCEPT
                !.prompts = Append(@, [ID |-> id,
                                       ChatID |-> prompt.ChatID,
                                       UserID |-> prompt.UserID,
                                       Username |-> prompt.Username,
                                       Text |-> prompt.Text,
                                       Tokens |-> prompt.Tokens]),
                !.generateds = Append(@, [ID |-> Len(w.generateds) + 1,
                                          Successful |-> prompt.Result.Successful,
                                          Text |-> prompt.Result.Text,
                                          Tokens |-> prompt.Result.Tokens,
                                          PromptID |-> id])]
        ELSE Emit(w1, LogEvent("failed to save prompt & result to database"))

\* savePromptAndResult saving the prompt's token count as the result's
savePromptAndResultSwapped(w, dbh, chatID, userID, username, prompt, promptTokens, result, resultTokens, resultSuccessful, ok) ==
    IF dbh # "nil"
    THEN SavePrompt(w, [ChatID |-> chatID,
                        UserID |-> userID,
                        Username |-> username,
                        Text |-> prompt,
                        Tokens |-> promptTokens,
                        Result |-> [Successful |-> resultSuccessful,
                                    Text |-> result,
                                    Tokens |-> promptTokens]], ok)
    ELSE w

\* savePromptAndResult saving every result as successful
savePromptAndResultSuccessful(w, dbh, chatID, userID, username, prompt, promptTokens, result, resultTokens, resultSuccessful, ok) ==
    IF dbh # "nil"
    THEN SavePrompt(w, [ChatID |-> chatID,
                        UserID |-> userID,
                        Username |-> username,
                        Text |-> prompt,
                        Tokens |-> promptTokens,
                        Result |-> [Successful |-> TRUE,
                                    Text |-> result,
                                    Tokens |-> resultTokens]], ok)
    ELSE w

\* save prompt and its result to logs database (nothing when db is nil)
savePromptAndResult(w, dbh, chatID, userID, username, prompt, promptTokens, result, resultTokens, resultSuccessful, ok) ==
    IF dbh # "nil"
    THEN SavePrompt(w, [ChatID |-> chatID,
                        UserID |-> userID,
                        Username |-> username,
                        Text |-> prompt,
                        Tokens |-> promptTokens,
                        Result |-> [Successful |-> resultSuccessful,
                                    Text |-> result,
                                    Tokens |-> resultTokens]], ok)
    ELSE w

\* convert chat messages to a prompt for logging: "[role] content" lines
RECURSIVE messagesToPrompt(_)
messagesToPrompt(messages) ==
    IF messages = <<>> THEN <<>>
    ELSE LET m == Head(messages)
             line == IF ~IsNil(m.Content)
                     THEN Lit("[") \o Lit(m.Role) \o Lit("] ") \o Deref(m.Content)
                     ELSE <<>>
             rest == messagesToPrompt(Tail(messages))
         IN  IF IsNil(m.Content) THEN rest
             ELSE IF \A i \in 1..Len(Tail(messages)) : IsNil(Tail(messages)[i].Content)
                  THEN line
                  ELSE line \o Lit("\n--------\n") \o rest

(***************************************************************************)
(* Sending.                                                                *)
(***************************************************************************)
ChatAction(chatID) == [ev |-> "SendChatAction", chat |-> chatID]

\* send trying once more when the message could not be sent
sendRetry(w, message, chatID, messageID, ok) ==
    LET w1 == Emit(w, ChatAction(chatID))
        call == [ev |-> "SendMessage", chat |-> chatID, text |-> message,
                 replyTo |-> messageID, ok |-> ok]
    IN  IF ok THEN Emit(w1, call)
        ELSE Emit(Emit(Emit(w1, call), LogEvent("failed to send message")), call)

\* send given message to the chat, as a reply when messageID is not nil
send(w, message, chatID, messageID, ok) ==
    LET w1 == Emit(w, ChatAction(chatID))
        w2 == Emit(w1, [ev |-> "SendMessage", chat |-> chatID, text |-> message,
                        replyTo |-> messageID, ok |-> ok])
    IN  IF ok THEN w2 ELSE Emit(w2, LogEvent("failed to send message"))

\* generate a user-agent value
userAgent(userID) == <<"telegram-chatgpt-bot:", userID>>

\* the length test off by one: an answer of exactly the limit goes as a file
TooLongOffByOne(answerText) == GoLen(answerText) >= MaxAnswerLen

\* the answer is too long for telegram api: send it as a text document
TooLong(answerText) == GoLen(answerText) > MaxAnswerLen

\* the caption of the text document
Caption(answerText) == ToValidUTF8(GoPrefix(answerText, CaptionLen), <<>>) \o Lit("...")

\* the answer relayed for a response of the completion API
AnswerOf(response) ==
    IF Len(response.Choices) > 0
    THEN IF ~IsNil(response.Choices[1].Message.Content)
         THEN Deref(response.Choices[1].Message.Content)
         ELSE <<>>
    ELSE msgNoResponse

\* err.Error() as the text saved for a failed send: err is the error of
\* CreateChatCompletion, nil in the branch where the sends are made, and
\* calling Error() on a nil error panics before savePromptAndResult is called
SaveSendFailure(w, dbh, err, chatID, userID, username, messages, response, ok) ==
    IF IsNil(err)
    THEN Panic(w)
    ELSE savePromptAndResult(w, dbh, chatID, userID, username, messagesToPrompt(messages),
                             response.Usage.PromptTokens, Deref(err), 0, FALSE, ok)

\* the request made again when it failed
CreateChatCompletionRetry(w, messages, userID, api) ==
    LET call == [ev |-> "CreateChatCompletion", messages |-> messages,
                 user |-> userAgent(userID), ok |-> api.ok, result |-> api]
    IN  IF api.ok THEN Emit(w, call) ELSE Emit(Emit(w, call), call)

\* the one request to the completion API: its messages, its user, and what
\* came back (api: [ok, response] or [ok, err])
CreateChatCompletion(w, messages, userID, api) ==
    Emit(w, [ev |-> "CreateChatCompletion", messages |-> messages,
             user |-> userAgent(userID), ok |-> api.ok, result |-> api])

\* generate an answer to given messages and send it to the chat
\* e: the outcomes of the calls [api, sendOk, noticeOk, saveOk]
answer(w, dbh, messages, chatID, userID, username, messageID, e) ==
    LET w1 == Emit(w, ChatAction(chatID))
        err == IF e.api.ok THEN Nil ELSE Ptr(e.api.err)
        w2 == CreateChatCompletion(w1, messages, userID, e.api)
    IN  IF IsNil(err)
        THEN LET response == e.api.response
                 w3 == Emit(w2, ChatAction(chatID))
                 answerText == AnswerOf(response)
             IN  IF TooLong(answerText)
                 THEN LET w4 == Emit(w3, [ev |-> "SendDocument", chat |-> chatID,
                                          file |-> answerText,
                                          replyTo |-> Ptr(messageID),
                                          caption |-> Caption(answerText),
                                          ok |-> e.sendOk])
                      IN  IF e.sendOk
                          THEN savePromptAndResult(w4, dbh, chatID, userID, username,
                                   messagesToPrompt(messages), response.Usage.PromptTokens,
                                   answerText, response.Usage.CompletionTokens, TRUE, e.saveOk)
                          ELSE SaveSendFailure(
                                   send(Emit(w4, LogEvent("failed to answer messages as file")),
                                        msgFailedFile, chatID, Ptr(messageID), e.noticeOk),
                                   dbh, err, chatID, userID, username, messages, response, e.saveOk)
                 ELSE LET w4 == Emit(w3, [ev |-> "SendMessage", chat |-> chatID,
                                          text |-> answerText,
                                          replyTo |-> Ptr(messageID),
                                          ok |-> e.sendOk])
                      IN  IF e.sendOk
                          THEN savePromptAndResult(w4, dbh, chatID, userID, username,
                                   messagesToPrompt(messages), response.Usage.PromptTokens,
                                   answerText, response.Usage.CompletionTokens, TRUE, e.saveOk)
                          ELSE SaveSendFailure(
                                   send(Emit(w4, LogEvent("failed to answer messages")),
                                        msgFailedText, chatID, Ptr(messageID), e.noticeOk),
                                   dbh, err, chatID, userID, username, messages, response, e.saveOk)
        ELSE LET w3 == send(Emit(w2, LogEvent("failed to create chat completion")),
                            msgFailedGenerate, chatID, Ptr(messageID), e.noticeOk)
             IN  savePromptAndResult(w3, dbh, chatID, userID, username,
                     messagesToPrompt(messages), 0, Deref(err), 0, FALSE, e.saveOk)

\* handleMessage without the test for converted messages
handleMessageNoGuard(w, dbh, update, message, e) ==
    LET chatID == message.Chat.ID
        userID == message.From.ID
        messageID == message.MessageID
        conv == chatMessagesFromTGMessage(message, e.dls)
        w1 == EmitAll(w, conv.trace)
    IN  answer(w1, dbh, conv.messages, chatID, userID, userNameFromUpdate(update),
               messageID, e)

\* handle allowed message update from telegram bot api
handleMessage(w, dbh, update, message, e) ==
    LET chatID == message.Chat.ID
        userID == message.From.ID
        messageID == message.MessageID
        conv == chatMessagesFromTGMessage(message, e.dls)
        w1 == EmitAll(w, conv.trace)
    IN  IF Len(conv.messages) > 0
        THEN answer(w1, dbh, conv.messages, chatID, userID, userNameFromUpdate(update),
                    messageID, e)
        ELSE send(Emit(w1, LogEvent("no converted chat messages from update")),
                  msgNoUsableMessages, chatID, Ptr(messageID), e.noticeOk)

(***************************************************************************)
(* /stats and /count.                                                      *)
(***************************************************************************)
RECURSIVE SumTokens(_)
SumTokens(rows) == IF rows = <<>> THEN 0 ELSE Head(rows).Tokens + SumTokens(Tail(rows))

Join(lines) ==
    LET RECURSIVE J(_)
        J(ls) == IF Len(ls) = 1 THEN Head(ls) ELSE Head(ls) \o Lit("\n") \o J(Tail(ls))
    IN  J(lines)

\* the query of the prompts counting every row
WithTokensAll(promptRows) == promptRows

\* Where("tokens > 0"): the prompts that are counted
WithTokens(promptRows) == SelectSeq(promptRows, LAMBDA r : r.Tokens > 0)

\* the outcomes of the five queries of retrieveStats: TRUE when tx.Error is nil
StatsQueries == [first : BOOLEAN, chats : BOOLEAN, prompts : BOOLEAN,
                 completions : BOOLEAN, errors : BOOLEAN]

\* retrieveStats with a nil database taken for an empty one
retrieveStatsNilAsEmpty(dbh, promptRows, generatedRows, q) ==
    msgDatabaseEmpty

\* retrieve stats from database; q: the outcomes of the queries.  First()
\* fails on a table without rows (record not found); the counting queries
\* answer 0 on such a table.
retrieveStats(dbh, promptRows, generatedRows, q) ==
    IF dbh = "nil"
    THEN msgDatabaseNotConfigured
    ELSE LET since == IF q.first /\ Len(promptRows) > 0
                      THEN <<Lit("Since <i>") \o Lit("CreatedAt") \o Lit("</i>"), <<>>>>
                      ELSE <<>>
             chatIDs == {promptRows[i].ChatID : i \in 1..Len(promptRows)}
             withTokens == WithTokens(promptRows)
             successful == SelectSeq(generatedRows, LAMBDA r : r.Successful)
             failed == SelectSeq(generatedRows, LAMBDA r : ~r.Successful)
             chats == IF q.chats
                      THEN <<Lit("* Chats: <b>") \o Num(Cardinality(chatIDs)) \o Lit("</b>")>>
                      ELSE <<>>
             proms == IF q.prompts
                      THEN <<Lit("* Prompts: <b>") \o Num(Len(withTokens))
                             \o Lit("</b> (Total tokens: <b>") \o Num(SumTokens(withTokens))
                             \o Lit("</b>)")>>
                      ELSE <<>>
             completions == IF q.completions
                            THEN <<Lit("* Completions: <b>") \o Num(Len(successful))
                                   \o Lit("</b> (Total tokens: <b>")
                                   \o Num(SumTokens(successful)) \o Lit("</b>)")>>
                            ELSE <<>>
             errors == IF q.errors
                       THEN <<Lit("* Errors: <b>") \o Num(Len(failed)) \o Lit("</b>")>>
                       ELSE <<>>
             lines == since \o chats \o proms \o completions \o errors
         IN  IF Len(lines) > 0 THEN Join(lines) ELSE msgDatabaseEmpty

\* count BPE tokens for given `text`, lazy-loading the tokenizer
\* tk: the global _tokenizer; e: [initOk, encodeOk, tokens]; calls: the calls
\* made to the tokenizer library (an empty text encodes to no token)
countTokens(tk, text, e) ==
    LET init == IF tk = "nil"
                THEN <<[ev |-> "GetTokenizerWithEncoding", ok |-> e.initOk]>>
                ELSE <<>>
        tk1 == IF tk = "nil" /\ e.initOk THEN "ready" ELSE tk
        n == IF text = <<>> THEN 0 ELSE e.tokens
    IN  IF tk1 = "nil"
        THEN [result |-> 0, err |-> Ptr(Lit("tokenizer is not initialized.")),
              tokenizer |-> tk1, calls |-> init]
        ELSE IF e.encodeOk
             THEN [result |-> n, err |-> Nil, tokenizer |-> tk1,
                   calls |-> Append(init, [ev |-> "Encode", text |-> text, ok |-> TRUE,
                                           tokens |-> n])]
             ELSE [result |-> 0, err |-> Ptr(Lit("encode error")), tokenizer |-> tk1,
                   calls |-> Append(init, [ev |-> "Encode", text |-> text, ok |-> FALSE,
                                           tokens |-> 0])]

\* generate a help message with version info
helpMessage == Lit("Help message here: /count /stats /help version: ") \o Lit("build")

(***************************************************************************)
(* The command handlers and the handler of the other updates.  Each       *)
(* returns at once for an update that is not allowed or has no usable      *)
(* message.                                                                *)
(***************************************************************************)
\* the handler greeting twice
startCommandHandlerTwice(w, allowed, update, e) ==
    IF ~isAllowed(update, allowed)
    THEN Emit(w, LogEvent("start command not allowed"))
    ELSE LET message == usableMessageFromUpdate(update)
         IN  IF IsNil(message) THEN Emit(w, LogEvent("no usable message from update."))
             ELSE send(send(w, msgStart, Deref(message).Chat.ID, Nil, e.noticeOk),
                       msgStart, Deref(message).Chat.ID, Nil, e.noticeOk)

startCommandHandler(w, allowed, update, e) ==
    IF ~isAllowed(update, allowed)
    THEN Emit(w, LogEvent("start command not allowed"))
    ELSE LET message == usableMessageFromUpdate(update)
         IN  IF IsNil(message) THEN Emit(w, LogEvent("no usable message from update."))
             ELSE send(w, msgStart, Deref(message).Chat.ID, Nil, e.noticeOk)

statsCommandHandler(w, allowed, dbh, update, e) ==
    IF ~isAllowed(update, allowed)
    THEN Emit(w, LogEvent("stats command not allowed"))
    ELSE LET message == usableMessageFromUpdate(update)
         IN  IF IsNil(message) THEN Emit(w, LogEvent("no usable message from update."))
             ELSE send(w, retrieveStats(dbh, w.prompts, w.generateds, e.q),
                       Deref(message).Chat.ID, Ptr(Deref(message).MessageID), e.noticeOk)

helpCommandHandler(w, allowed, update, e) ==
    IF ~isAllowed(update, allowed)
    THEN Emit(w, LogEvent("help command not allowed"))
    ELSE LET message == usableMessageFromUpdate(update)
         IN  IF IsNil(message) THEN Emit(w, LogEvent("no usable message from update."))
             ELSE send(w, helpMessage, Deref(message).Chat.ID,
                       Ptr(Deref(message).MessageID), e.noticeOk)

\* fmt.Sprintf(msgTokenCount, count, chars)
msgTokenCount(count, chars) ==
    Lit("<b>") \o Num(count) \o Lit("</b> tokens in <b>") \o Num(chars)
    \o Lit("</b> chars <i>(cl100k_base)</i>")

\* the handler reporting the length of the whole text, command included
countCommandHandlerTextLen(w, allowed, tk, update, args, e) ==
    IF ~isAllowed(update, allowed)
    THEN Emit(w, LogEvent("count command not allowed"))
    ELSE LET message == usableMessageFromUpdate(update)
             r == countTokens(tk, args, e)
             msg == IF IsNil(r.err)
                    THEN msgTokenCount(r.result, GoLen(Deref(Deref(message).Text)))
                    ELSE Deref(r.err)
         IN  IF IsNil(message)
             THEN Emit(w, LogEvent("no usable message from update."))
             ELSE [send(EmitAll(w, r.calls), msg, Deref(message).Chat.ID,
                        Ptr(Deref(message).MessageID), e.noticeOk)
                      EXCEPT !.tokenizer = r.tokenizer]

countCommandHandler(w, allowed, tk, update, args, e) ==
    IF ~isAllowed(update, allowed)
    THEN Emit(w, LogEvent("count command not allowed"))
    ELSE LET message == usableMessageFromUpdate(update)
             r == countTokens(tk, args, e)
             msg == IF IsNil(r.err)
                    THEN msgTokenCount(r.result, GoLen(args))
                    ELSE Deref(r.err)
         IN  IF IsNil(message)
             THEN Emit(w, LogEvent("no usable message from update."))
             ELSE [send(EmitAll(w, r.calls), msg, Deref(message).Chat.ID,
                        Ptr(Deref(message).MessageID), e.noticeOk)
                      EXCEPT !.tokenizer = r.tokenizer]

\* the handler echoing the whole text of the message, not the command
noSuchCommandHandlerEchoText(w, allowed, update, cmd, e) ==
    IF ~isAllowed(update, allowed)
    THEN Emit(w, LogEvent("command not allowed"))
    ELSE LET message == usableMessageFromUpdate(update)
         IN  IF IsNil(message) THEN Emit(w, LogEvent("no usable message from update."))
             ELSE send(w, msgCmdNotSupported \o Deref(Deref(message).Text),
                       Deref(message).Chat.ID, Ptr(Deref(message).MessageID), e.noticeOk)

noSuchCommandHandler(w, allowed, update, cmd, e) ==
    IF ~isAllowed(update, allowed)
    THEN Emit(w, LogEvent("command not allowed"))
    ELSE LET message == usableMessageFromUpdate(update)
         IN  IF IsNil(message) THEN Emit(w, LogEvent("no usable message from update."))
             ELSE send(w, msgCmdNotSupported \o cmd, Deref(message).Chat.ID,
                       Ptr(Deref(message).MessageID), e.noticeOk)

\* the message handler set in runBot
messageHandler(w, allowed, dbh, update, message, e) ==
    IF ~isAllowed(update, allowed)
    THEN Emit(w, LogEvent("message not allowed"))
    ELSE handleMessage(w, dbh, update, message, e)

\* the handler given to StartPollingUpdates: the updates no other handler took
updateHandler(w, allowed, update, e) ==
    IF e.pollErr
    THEN Emit(w, LogEvent("failed to poll updates"))
    ELSE IF ~isAllowed(update, allowed)
    THEN Emit(w, LogEvent("not allowed"))
    ELSE LET message == usableMessageFromUpdate(update)
         IN  IF ~IsNil(message)
             THEN send(w, msgTypeNotSupported, Deref(message).Chat.ID,
                       Ptr(Deref(message).MessageID), e.noticeOk)
             ELSE w

(***************************************************************************)
(* The updates and the outcomes of the external calls the model draws      *)
(* from.                                                                   *)
(***************************************************************************)
Alice == [ID |-> 11, Username |-> Ptr("alice"), FirstName |-> "Alice", IsBot |-> FALSE]
Eve == [ID |-> 12, Username |-> Ptr("eve"), FirstName |-> "Eve", IsBot |-> FALSE]
Anon == [ID |-> 13, Username |-> Nil, FirstName |-> "Anon", IsBot |-> FALSE]
TheBot == [ID |-> 99, Username |-> Ptr("chatgpt_bot"), FirstName |-> "Bot", IsBot |-> TRUE]
InlineBot == [ID |-> 98, Username |-> Ptr("inline_bot"), FirstName |-> "Inline", IsBot |-> TRUE]

Senders == {Alice, Eve, Anon}

Message(id, from, text, document, viaBot, replyTo) ==
    [MessageID |-> id, From |-> from, Chat |-> [ID |-> 100], Text |-> text,
     Document |-> document, ViaBot |-> viaBot, ReplyToMessage |-> replyTo]

\* what a message of the given text and file can carry: nothing, the text, the
\* file, or both
Contents(text, fileID) ==
    { [Text |-> Nil, Document |-> Nil],
      [Text |-> Ptr(Lit(text)), Document |-> Nil],
      [Text |-> Nil, Document |-> Ptr([FileID |-> fileID])],
      [Text |-> Ptr(Lit(text)), Document |-> Ptr([FileID |-> fileID])] }

MessageUpdate(message) == [Message |-> Ptr(message), EditedMessage |-> Nil, CallbackFrom |-> Nil]
EditedUpdate(message) == [Message |-> Nil, EditedMessage |-> Ptr(message), CallbackFrom |-> Nil]
CallbackUpdate(from) == [Message |-> Nil, EditedMessage |-> Nil, CallbackFrom |-> Ptr(from)]

\* replied-to messages: from a user, sent via an inline bot, or the bot's own
Grandparents == {Nil, Ptr(Message(1, Alice, Ptr(Lit("G")), Nil, Nil, Nil))}

Parents ==
    {Nil} \cup
    { Ptr(Message(2, who[1], c.Text, c.Document, who[2], g)) :
        who \in {<<Alice, Nil>>, <<Alice, Ptr(InlineBot)>>, <<TheBot, Nil>>},
        c \in Contents("A", "fileA"), g \in Grandparents }

ConvMessages ==
    { Message(3, Alice, c.Text, c.Document, via, p) :
        c \in Contents("B", "fileB"), via \in {Nil, Ptr(InlineBot)}, p \in Parents }

\* the bytes of a downloaded file: blanks, text, an invalid byte, a line break
FileBytes ==
    Rep(" ", 1, 2) \o Lit("doc") \o <<[kind |-> "bad", c |-> "\\xff", w |-> 1, k |-> 1]>>
    \o Lit("!") \o Rep("\n", 1, 1)

DlOutcomes ==
    { [getFile |-> FALSE, http |-> FALSE, bytes |-> <<>>],
      [getFile |-> TRUE, http |-> FALSE, bytes |-> <<>>],
      [getFile |-> TRUE, http |-> TRUE, bytes |-> FileBytes] }

\* the most calls of documentText the conversion of a message can make
Downloads(message) ==
    LET one(m) == IF HasText(m) \/ ~HasDocument(m) THEN 0
                  ELSE IF ~IsNil(m.ViaBot) THEN 2 ELSE 1
    IN  one(message)
        + (IF IsNil(message.ReplyToMessage) THEN 0 ELSE one(Deref(message.ReplyToMessage)))

ApiFail == [ok |-> FALSE, err |-> Lit("openai: request failed")]

Choice(content) == [Message |-> [Role |-> "assistant", Content |-> content]]

ApiOk(choices, promptTokens, completionTokens) ==
    [ok |-> TRUE,
     response |-> [Choices |-> choices,
                   Usage |-> [PromptTokens |-> promptTokens,
                              CompletionTokens |-> completionTokens]]]

ShortAnswer == ApiOk(<<Choice(Ptr(Lit("ok")))>>, 3, 5)

\* no choice, a choice without content, short and long answers, an answer
\* of the limit's length, one whose 128th byte is inside a 3-byte character,
\* and two choices
ApiOutcomes ==
    { ApiFail,
      ApiOk(<<>>, 3, 0),
      ApiOk(<<Choice(Nil)>>, 3, 0),
      ShortAnswer,
      ApiOk(<<Choice(Ptr(Rep("a", 1, MaxAnswerLen)))>>, 4, 6),
      ApiOk(<<Choice(Ptr(Rep("a", 1, MaxAnswerLen + 1)))>>, 4, 7),
      ApiOk(<<Choice(Ptr(Rep("a", 1, CaptionLen - 1) \o Rep("EUR", 3, 1)
                         \o Rep("a", 1, MaxAnswerLen)))>>, 2, 8),
      ApiOk(<<Choice(Ptr(Lit("first"))), Choice(Ptr(Lit("second")))>>, 2, 9) }

Env(dls, api, sendOk, noticeOk, saveOk, recover) ==
    [dls |-> dls, api |-> api, sendOk |-> sendOk, noticeOk |-> noticeOk,
     saveOk |-> saveOk, recover |-> recover]

\* the outcomes of answering: of the completion, the send of the answer, the
\* send of a notice, the save, and whether the library recovers a panic
AnswerEnvs ==
    { Env(<<>>, ApiFail, TRUE, n, v, TRUE) : n \in BOOLEAN, v \in BOOLEAN }
    \cup { Env(<<>>, a, TRUE, TRUE, v, TRUE) : a \in ApiOutcomes \ {ApiFail}, v \in BOOLEAN }
    \cup { Env(<<>>, a, FALSE, n, TRUE, r) :
             a \in ApiOutcomes \ {ApiFail}, n \in BOOLEAN, r \in BOOLEAN }

ConvEnvs(message) ==
    { Env(d, a, TRUE, TRUE, TRUE, TRUE) :
        d \in [1..Downloads(message) -> DlOutcomes], a \in {ApiFail, ShortAnswer} }

BasicEnvs(message) ==
    { Env(d, a, sendOk, TRUE, TRUE, TRUE) :
        d \in [1..Downloads(message) -> DlOutcomes], a \in {ApiFail, ShortAnswer},
        sendOk \in BOOLEAN }

PlainMessages(from) ==
    { Message(3, from, c.Text, c.Document, Nil, Nil) : c \in Contents("B", "fileB") }

\* what the message handler is given: a text message of an allowed sender with
\* every outcome of answering, and a text, a file or neither, new or edited,
\* of any sender
MessageInputs ==
    { [update |-> MessageUpdate(Message(3, Alice, Ptr(Lit("B")), Nil, Nil, Nil)),
       message |-> Message(3, Alice, Ptr(Lit("B")), Nil, Nil, Nil), e |-> e] :
        e \in AnswerEnvs }
    \cup
    UNION { { [update |-> MessageUpdate(m), message |-> m, e |-> e] : e \in BasicEnvs(m) } :
            m \in UNION { PlainMessages(from) : from \in Senders } }
    \cup
    UNION { { [update |-> EditedUpdate(m), message |-> m, e |-> e] : e \in BasicEnvs(m) } :
            m \in UNION { PlainMessages(from) : from \in Senders } }

\* the same handler given every shape of message and of replied-to message,
\* with every outcome of the downloads
ReplyInputs ==
    UNION { { [update |-> MessageUpdate(m), message |-> m, e |-> e] : e \in ConvEnvs(m) } :
            m \in ConvMessages }

\* a command as the library hands it over: the update, the command and its arguments
CommandText(cmd, args) == IF args = <<>> THEN Lit(cmd) ELSE Lit(cmd) \o Lit(" ") \o args

CommandInputs(cmd, argss) ==
    { [update |-> IF edited
                  THEN EditedUpdate(Message(3, from, Ptr(CommandText(cmd, args)), Nil, Nil, Nil))
                  ELSE MessageUpdate(Message(3, from, Ptr(CommandText(cmd, args)), Nil, Nil, Nil)),
       cmd |-> Lit(cmd), args |-> args] :
        from \in Senders, edited \in BOOLEAN, args \in argss }

\* the updates the handler of StartPollingUpdates may be given
OtherUpdates ==
    { CallbackUpdate(from) : from \in Senders }
    \cup { MessageUpdate(Message(3, from, c.Text, c.Document, Nil, Nil)) :
             from \in Senders, c \in Contents("B", "fileB") }
    \cup { EditedUpdate(Message(3, from, Nil, Ptr([FileID |-> "fileB"]), Nil, Nil)) :
             from \in Senders }

(***************************************************************************)
(* The state machine.                                                      *)
(***************************************************************************)
NoLast == [handler |-> "none", update |-> Nil, message |-> Nil, trace |-> <<>>,
           panicked |-> FALSE]

\* the config files: every allow-list with and without a database path
Configs ==
    [AllowedTelegramUsers : {<<>>, <<"alice">>, <<"">>, <<"alice", "">>},
     RequestLogsDBFilepath : {"", "logs.db"}]

\* a file that cannot be read, one that is not JSON, and the config files
ConfFiles ==
    { [readable |-> FALSE, json |-> Nil], [readable |-> TRUE, json |-> Nil] }
    \cup { [readable |-> TRUE, json |-> Ptr(c)] : c \in Configs }

\* the program has not started: its arguments and the file at the path given
Init ==
    /\ osArgs \in {<<"bot">>, <<"bot", "config.json">>}
    /\ confFile \in ConfFiles
    /\ launched = FALSE
    /\ out = <<>>
    /\ allowedUsers = {}
    /\ dbFilepath = ""
    /\ db = "nil"
    /\ prompts = <<>>
    /\ generateds = <<>>
    /\ tokenizer = "nil"
    /\ tkLog = <<>>
    /\ counting = <<>>
    /\ handled = 0
    /\ crashed = FALSE
    /\ pc = "main"
    /\ last = NoLast

\* loadConfig returning an empty config and no error for a file it cannot parse
loadConfigLenient(file) ==
    IF ~file.readable
    THEN [conf |-> Nil, err |-> Ptr("read error")]
    ELSE IF IsNil(file.json)
    THEN [conf |-> Ptr([AllowedTelegramUsers |-> <<>>, RequestLogsDBFilepath |-> ""]),
          err |-> Nil]
    ELSE [conf |-> file.json, err |-> Nil]

\* load config at given path: os.ReadFile, then json.Unmarshal
loadConfig(file) ==
    IF ~file.readable
    THEN [conf |-> Nil, err |-> Ptr("read error")]
    ELSE IF IsNil(file.json)
    THEN [conf |-> Nil, err |-> Ptr("unmarshal error")]
    ELSE [conf |-> file.json, err |-> Nil]

\* print usage string
printUsage == <<[ev |-> "print", what |-> "Usage: [config_filepath]"]>>

\* runBot returning when the database cannot be opened
runBotNeedsDatabase(conf, getMeOk, openOk) ==
    /\ launched' = TRUE
    /\ allowedUsers' = {conf.AllowedTelegramUsers[i] : i \in 1..Len(conf.AllowedTelegramUsers)}
    /\ dbFilepath' = conf.RequestLogsDBFilepath
    /\ IF getMeOk
       THEN /\ db' = IF conf.RequestLogsDBFilepath # "" /\ openOk THEN "open" ELSE "nil"
            /\ out' = out \o <<LogEvent("launching bot")>>
                          \o (IF conf.RequestLogsDBFilepath # "" /\ ~openOk
                              THEN <<LogEvent("failed to open request logs db")>> ELSE <<>>)
            /\ pc' = IF conf.RequestLogsDBFilepath # "" /\ ~openOk THEN "exited" ELSE "polling"
       ELSE /\ db' = "nil"
            /\ out' = Append(out, LogEvent("failed to get bot info"))
            /\ pc' = "exited"

\* runBot up to StartPollingUpdates: the allow-list, GetMe, and the database
\* opened when a path is configured (db stays nil when OpenDatabase fails);
\* runBot returns when GetMe fails
runBot(conf, getMeOk, openOk) ==
    /\ launched' = TRUE
    /\ allowedUsers' = {conf.AllowedTelegramUsers[i] : i \in 1..Len(conf.AllowedTelegramUsers)}
    /\ dbFilepath' = conf.RequestLogsDBFilepath
    /\ IF getMeOk
       THEN /\ db' = IF conf.RequestLogsDBFilepath # "" /\ openOk THEN "open" ELSE "nil"
            /\ out' = out \o <<LogEvent("launching bot")>>
                          \o (IF conf.RequestLogsDBFilepath # "" /\ ~openOk
                              THEN <<LogEvent("failed to open request logs db")>> ELSE <<>>)
            /\ pc' = "polling"
       ELSE /\ db' = "nil"
            /\ out' = Append(out, LogEvent("failed to get bot info"))
            /\ pc' = "exited"

\* main: usage without argument, else the config is loaded and the bot run
Main ==
    /\ pc = "main"
    /\ UNCHANGED <<osArgs, confFile, prompts, generateds, tokenizer, tkLog, counting,
                   handled, crashed, last>>
    /\ IF Len(osArgs) <= 1
       THEN /\ out' = out \o printUsage
            /\ pc' = "exited"
            /\ UNCHANGED <<launched, allowedUsers, dbFilepath, db>>
       ELSE LET r == loadConfig(confFile)
            IN  IF IsNil(r.err)
                THEN \E getMeOk \in BOOLEAN, openOk \in BOOLEAN :
                        runBot(Deref(r.conf), getMeOk, openOk)
                ELSE /\ out' = Append(out, LogEvent("failed to load config"))
                     /\ pc' = "exited"
                     /\ UNCHANGED <<launched, allowedUsers, dbFilepath, db>>

\* the run of a handler starts from the current log store and tokenizer
W0 == [trace |-> <<>>, prompts |-> prompts, generateds |-> generateds,
       tokenizer |-> tokenizer, panicked |-> FALSE]

CanHandle == pc = "polling" /\ ~crashed /\ handled < MaxUpdates

\* what a run did to the tokenizer: each call of GetTokenizerWithEncoding,
\* and after a successful one the store of its result to _tokenizer
RECURSIVE TokenizerEvents(_, _)
TokenizerEvents(trace, by) ==
    IF trace = <<>> THEN <<>>
    ELSE IF Head(trace).ev = "GetTokenizerWithEncoding"
    THEN <<[ev |-> "init", by |-> by, ok |-> Head(trace).ok]>>
         \o (IF Head(trace).ok THEN <<[ev |-> "store", by |-> by, ok |-> TRUE]>> ELSE <<>>)
         \o TokenizerEvents(Tail(trace), by)
    ELSE TokenizerEvents(Tail(trace), by)

\* the handler has run: r is its run, a panic the library does not recover
\* ends the process
Done(handler, update, message, r, recover) ==
    /\ prompts' = r.prompts
    /\ generateds' = r.generateds
    /\ tokenizer' = r.tokenizer
    /\ tkLog' = tkLog \o TokenizerEvents(r.trace, handled + 1)
    /\ UNCHANGED counting
    /\ crashed' = (r.panicked /\ ~recover)
    /\ handled' = handled + 1
    /\ pc' = "handled"
    /\ last' = [handler |-> handler, update |-> Ptr(update), message |-> message,
                trace |-> r.trace, panicked |-> r.panicked]
    /\ UNCHANGED <<osArgs, confFile, launched, out, allowedUsers, db, dbFilepath>>

OnMessage ==
    /\ CanHandle
    /\ \E in \in MessageInputs :
          Done("message", in.update, Ptr(in.message),
               messageHandler(W0, allowedUsers, db, in.update, in.message, in.e),
               in.e.recover)

\* the message handler, on messages that reply to messages
OnReply ==
    /\ pc = "polling" /\ ~crashed /\ handled < MaxReplies
    /\ \E in \in ReplyInputs :
          Done("message", in.update, Ptr(in.message),
               messageHandler(W0, allowedUsers, db, in.update, in.message, in.e),
               in.e.recover)

OnStart ==
    /\ CanHandle
    /\ \E in \in CommandInputs("/start", {<<>>}), noticeOk \in BOOLEAN :
          Done("start", in.update, Nil,
               startCommandHandler(W0, allowedUsers, in.update, [noticeOk |-> noticeOk]),
               TRUE)

OnStats ==
    /\ CanHandle
    /\ \E in \in CommandInputs("/stats", {<<>>}), noticeOk \in BOOLEAN, q \in StatsQueries :
          Done("stats", in.update, Nil,
               statsCommandHandler(W0, allowedUsers, db, in.update,
                                   [noticeOk |-> noticeOk, q |-> q]),
               TRUE)

OnHelp ==
    /\ CanHandle
    /\ \E in \in CommandInputs("/help", {<<>>}), noticeOk \in BOOLEAN :
          Done("help", in.update, Nil,
               helpCommandHandler(W0, allowedUsers, in.update, [noticeOk |-> noticeOk]),
               TRUE)

OnCount ==
    /\ CanHandle
    /\ \E in \in CommandInputs("/count", {<<>>, Lit("hello world"), Rep("EUR", 3, 2)}),
          noticeOk \in BOOLEAN, initOk \in BOOLEAN, encodeOk \in BOOLEAN, tokens \in {2, 3} :
          Done("count", in.update, Nil,
               countCommandHandler(W0, allowedUsers, tokenizer, in.update, in.args,
                                   [noticeOk |-> noticeOk, initOk |-> initOk,
                                    encodeOk |-> encodeOk, tokens |-> tokens]),
               TRUE)

OnNoSuchCommand ==
    /\ CanHandle
    /\ \E in \in CommandInputs("/foo", {<<>>, Lit("bar")}), noticeOk \in BOOLEAN :
          Done("nosuch", in.update, Nil,
               noSuchCommandHandler(W0, allowedUsers, in.update, in.cmd,
                                    [noticeOk |-> noticeOk]),
               TRUE)

OnUpdate ==
    /\ CanHandle
    /\ \E update \in OtherUpdates, pollErr \in BOOLEAN, noticeOk \in BOOLEAN :
          Done("update", update, Nil,
               updateHandler(W0, allowedUsers, update,
                             [pollErr |-> pollErr, noticeOk |-> noticeOk]),
               TRUE)

\* the handler returned: the bot polls for the next update
Poll ==
    /\ pc = "handled"
    /\ pc' = "polling"
    /\ last' = NoLast
    /\ UNCHANGED <<osArgs, confFile, launched, out, allowedUsers, db, prompts, generateds,
                   tokenizer, tkLog, counting, dbFilepath, handled, crashed>>

Next ==
    \/ Main
    \/ OnMessage
    \/ OnStart
    \/ OnStats
    \/ OnHelp
    \/ OnCount
    \/ OnNoSuchCommand
    \/ OnUpdate
    \/ Poll

Spec == Init /\ [][Next]_vars

\* the conversion of messages and their replied-to messages
NextReply == Main \/ OnReply \/ Poll

SpecReply == Init /\ [][NextReply]_vars

(***************************************************************************)
(* countTokens statement by statement, for /count handlers that the        *)
(* library runs concurrently: _tokenizer is a global read and written      *)
(* without synchronisation.                                                *)
(***************************************************************************)
Counters == 1..MaxCounts

\* the bot is polling and MaxCounts calls of countTokens have just begun
InitCount ==
    /\ osArgs = <<"bot", "config.json">>
    /\ confFile = [readable |-> TRUE,
                   json |-> Ptr([AllowedTelegramUsers |-> <<"alice">>,
                                 RequestLogsDBFilepath |-> ""])]
    /\ launched = TRUE
    /\ out = <<LogEvent("launching bot")>>
    /\ allowedUsers = {"alice"}
    /\ dbFilepath = ""
    /\ db = "nil"
    /\ prompts = <<>>
    /\ generateds = <<>>
    /\ tokenizer = "nil"
    /\ tkLog = <<>>
    /\ counting = [g \in Counters |-> [pc |-> "check", err |-> Nil, used |-> 0]]
    /\ handled = 0
    /\ crashed = FALSE
    /\ pc = "polling"
    /\ last = NoLast

CountFrame ==
    UNCHANGED <<osArgs, confFile, launched, out, allowedUsers, db, prompts, generateds,
                dbFilepath, handled, crashed, pc, last>>

\* who stored the instance _tokenizer points to
Stores == SelectSeq(tkLog, LAMBDA x : x.ev = "store")

\* if _tokenizer == nil
CountTokensCheck(g) ==
    /\ counting[g].pc = "check"
    /\ counting' = [counting EXCEPT ![g].pc = IF tokenizer = "nil" THEN "init" ELSE "guard"]
    /\ UNCHANGED <<tokenizer, tkLog>>
    /\ CountFrame

\* tokenizer, err = geektoken.GetTokenizerWithEncoding(...)
CountTokensInit(g) ==
    /\ counting[g].pc = "init"
    /\ \E ok \in BOOLEAN :
          /\ tkLog' = Append(tkLog, [ev |-> "init", by |-> g, ok |-> ok])
          /\ counting' = [counting EXCEPT ![g].pc = IF ok THEN "store" ELSE "guard"]
    /\ UNCHANGED tokenizer
    /\ CountFrame

\* _tokenizer = &tokenizer
CountTokensStore(g) ==
    /\ counting[g].pc = "store"
    /\ tokenizer' = "ready"
    /\ tkLog' = Append(tkLog, [ev |-> "store", by |-> g, ok |-> TRUE])
    /\ counting' = [counting EXCEPT ![g].pc = "guard"]
    /\ CountFrame

\* if _tokenizer == nil { return 0, fmt.Errorf("tokenizer is not initialized.") }
CountTokensGuard(g) ==
    /\ counting[g].pc = "guard"
    /\ counting' = [counting EXCEPT
                      ![g] = IF tokenizer = "nil"
                             THEN [pc |-> "done",
                                   err |-> Ptr(Lit("tokenizer is not initialized.")),
                                   used |-> 0]
                             ELSE [@ EXCEPT !.pc = "encode"]]
    /\ UNCHANGED <<tokenizer, tkLog>>
    /\ CountFrame

\* tokens, err = _tokenizer.Encode(text, nil, nil), on the instance stored last
CountTokensEncode(g) ==
    /\ counting[g].pc = "encode"
    /\ \E ok \in BOOLEAN :
          counting' = [counting EXCEPT
                         ![g] = [pc |-> "done",
                                 err |-> IF ok THEN Nil ELSE Ptr(Lit("encode error")),
                                 used |-> Stores[Len(Stores)].by]]
    /\ UNCHANGED <<tokenizer, tkLog>>
    /\ CountFrame

NextCount ==
    \E g \in Counters :
        \/ CountTokensCheck(g)
        \/ CountTokensInit(g)
        \/ CountTokensStore(g)
        \/ CountTokensGuard(g)
        \/ CountTokensEncode(g)

SpecCount == InitCount /\ [][NextCount]_vars

(***************************************************************************)
(* Properties.  They are stated on the state right after a handler ran     *)
(* (pc = "handled"), where `last' holds what it was given and the calls it *)
(* made.                                                                   *)
(***************************************************************************)
Handled == pc = "handled"

LastUpdate == Deref(last.update)

\* the sender of the update the handler was given
LastFrom == Deref(GetFrom(LastUpdate))

\* the calls of one kind the handler made, in order
Calls(kind) == SelectSeq(last.trace, LAMBDA x : x.ev = kind)

\* the handler made no call to the outside: no request to the completion
\* API, nothing sent to the chat, nothing saved, nothing downloaded
NoOutboundCall == \A i \in 1..Len(last.trace) : last.trace[i].ev = "log"

\* the sender has a username and the allow-list does not hold it
SenderNotListed ==
    /\ ~IsNil(LastFrom.Username)
    /\ Deref(LastFrom.Username) \notin allowedUsers

\* C1: whichever handler is given an update whose sender's username is not in
\* the allow-list, it calls neither the completion API nor the chat: it sends
\* no reply (and makes no other outbound call).
C1_NotListedNoCallNoReply ==
    (Handled /\ SenderNotListed)
        => /\ Calls("CreateChatCompletion") = <<>>
           /\ Calls("SendMessage") = <<>>
           /\ Calls("SendDocument") = <<>>
           /\ NoOutboundCall

\* a sender that is not listed wrote to a bot that allows somebody, and the
\* message handler returned without a call
C1_Witness ==
    /\ Handled /\ SenderNotListed
    /\ last.handler = "message"
    /\ allowedUsers # {}
    /\ Calls("log") # <<>>
    /\ Calls("SendMessage") = <<>>

\* C2: an update whose sender has no username is rejected by the allow-list
\* filter, whatever the allow-list holds.
C2_NoUsernameRejected ==
    (Handled /\ IsNil(LastFrom.Username))
        => /\ ~isAllowed(LastUpdate, allowedUsers)
           /\ NoOutboundCall

LastMessage == Deref(last.message)

ApiCalls == Calls("CreateChatCompletion")

Saves == Calls("SavePrompt")

\* what the handler sent to the chat, in order
Sends == SelectSeq(last.trace, LAMBDA x : x.ev \in {"SendMessage", "SendDocument"})

\* the message handler ran for an allowed update
AllowedMessage ==
    Handled /\ last.handler = "message" /\ isAllowed(LastUpdate, allowedUsers)

\* the completion API answered and the first thing sent, the answer, went through
AnswerDelivered ==
    /\ Len(ApiCalls) = 1 /\ ApiCalls[1].ok
    /\ Sends # <<>> /\ Sends[1].ok

\* the last rows of the tables are the pair of this save
PairStoredIn(promptRows, generatedRows, save) ==
    /\ promptRows # <<>> /\ generatedRows # <<>>
    /\ LET p == promptRows[Len(promptRows)]
           g == generatedRows[Len(generatedRows)]
       IN  /\ g.PromptID = p.ID
           /\ p.Tokens = save.prompt.Tokens
           /\ p.Text = save.prompt.Text
           /\ g.Successful = save.prompt.Result.Successful
           /\ g.Tokens = save.prompt.Result.Tokens

PairStored(save) == PairStoredIn(prompts, generateds, save)

\* C3: with logging enabled, every terminal outcome of answering a message
\* (file sent, file not sent, text sent, text not sent, completion failed)
\* makes exactly one write to the log store.
C3_OneWritePerOutcome ==
    (AllowedMessage /\ db = "open" /\ ApiCalls # <<>>) => Len(Saves) = 1

C5_OneResultPerPrompt ==
    /\ \A i \in 1..Len(prompts) :
          Cardinality({j \in 1..Len(generateds) : generateds[j].PromptID = prompts[i].ID}) = 1
    /\ \A j \in 1..Len(generateds) :
          \E i \in 1..Len(prompts) : prompts[i].ID = generateds[j].PromptID
    /\ \A i, k \in 1..Len(prompts) : prompts[i].ID = prompts[k].ID => i = k

\* a pair is stored and the write of the next one failed
C5_Witness ==
    /\ Len(prompts) = 1 /\ Len(generateds) = 1
    /\ Handled /\ Saves # <<>> /\ ~Saves[1].ok

\* C6: an answer of at most 4096 bytes is sent as a message replying to the
\* original message, a longer one as a file whose caption is its first 128
\* bytes (made valid UTF-8) and "...", at most 131 bytes; the answer is sent
\* exactly once, on exactly one of the two paths.
C6_LengthDecidesPath ==
    (AllowedMessage /\ Len(ApiCalls) = 1 /\ ApiCalls[1].ok)
        => LET ans == AnswerOf(ApiCalls[1].result.response)
               id == LastMessage.MessageID
           IN  /\ Sends # <<>>
               /\ Sends[1].replyTo = Ptr(id)
               /\ IF GoLen(ans) <= 4096
                  THEN /\ Sends[1].ev = "SendMessage"
                       /\ Sends[1].text = ans
                       /\ Calls("SendDocument") = <<>>
                  ELSE /\ Sends[1].ev = "SendDocument"
                       /\ Sends[1].file = ans
                       /\ GoLen(Sends[1].caption) <= 131
                       /\ GoLen(Sends[1].caption) >= 3
                       /\ Sends[1].caption[Len(Sends[1].caption)].c = "..."
                       /\ Len(Calls("SendDocument")) = 1
               /\ \A i \in 2..Len(Sends) :
                     /\ Sends[i].ev = "SendMessage"
                     /\ Sends[i].text \in {msgFailedFile, msgFailedText}

\* an answer of exactly 4096 bytes went out as a message
C6_Witness ==
    /\ AllowedMessage /\ Len(ApiCalls) = 1 /\ ApiCalls[1].ok
    /\ Sends # <<>> /\ Sends[1].ev = "SendMessage"
    /\ GoLen(Sends[1].text) = 4096

\* C9: when the completion API fails no answer is relayed: the one thing sent
\* is the notice "Failed to generate an answer ..." as a reply, and, with
\* logging enabled, one pair is saved with successful = false and zero result
\* tokens (stored unless the write fails); with logging disabled none.
C9_CompletionFailure ==
    (AllowedMessage /\ ApiCalls # <<>> /\ ~ApiCalls[1].ok)
        => /\ Calls("SendDocument") = <<>>
           /\ Len(Sends) = 1
           /\ Sends[1].text = msgFailedGenerate
           /\ Sends[1].replyTo = Ptr(LastMessage.MessageID)
           /\ IF db = "open"
              THEN /\ Len(Saves) = 1
                   /\ ~Saves[1].prompt.Result.Successful
                   /\ Saves[1].prompt.Result.Tokens = 0
                   /\ Saves[1].ok => PairStored(Saves[1])
              ELSE Saves = <<>>

\* the completion failed and its pair was stored
C9_Witness ==
    /\ AllowedMessage /\ ApiCalls # <<>> /\ ~ApiCalls[1].ok
    /\ db = "open" /\ Len(Saves) = 1 /\ Saves[1].ok
    /\ ~generateds[Len(generateds)].Successful

\* the message, or the message it replies to, converts to an entry: it has a
\* text or a file that was downloaded
SomeEntry ==
    \/ HasText(LastMessage)
    \/ ~IsNil(LastMessage.ReplyToMessage) /\ HasText(Deref(LastMessage.ReplyToMessage))
    \/ \E i \in 1..Len(last.trace) : last.trace[i].ev = "HttpGet" /\ last.trace[i].ok

\* C10: for an allowed message with at least one converted entry the
\* completion API is called exactly once, whether the call or the delivery
\* fails; no handler calls it more than once.
C10_OneCompletionCall ==
    /\ (AllowedMessage /\ SomeEntry) => Len(ApiCalls) = 1
    /\ Handled => Len(ApiCalls) <= 1

\* the answer could not be delivered and the API had been called once
C10_Witness ==
    /\ AllowedMessage /\ SomeEntry
    /\ Len(ApiCalls) = 1 /\ ApiCalls[1].ok
    /\ Sends # <<>> /\ ~Sends[1].ok

\* C7: for a message with text that replies to a message with text, the
\* request to the completion API is the entry of the replied-to message and
\* then the entry of the message; no request has more than two entries, also
\* when the replied-to message is itself a reply.
C7_ParentThenCurrent ==
    /\ (AllowedMessage /\ HasText(LastMessage) /\ ~IsNil(LastMessage.ReplyToMessage)
            /\ HasText(Deref(LastMessage.ReplyToMessage)))
         => /\ Len(ApiCalls) = 1
            /\ Len(ApiCalls[1].messages) = 2
            /\ ApiCalls[1].messages[1].Content = Deref(LastMessage.ReplyToMessage).Text
            /\ ApiCalls[1].messages[2].Content = LastMessage.Text
    /\ Handled => \A i \in 1..Len(ApiCalls) : Len(ApiCalls[i].messages) <= 2

\* a reply to a reply, both with text
C7_Witness ==
    /\ AllowedMessage /\ HasText(LastMessage) /\ ~IsNil(LastMessage.ReplyToMessage)
    /\ HasText(Deref(LastMessage.ReplyToMessage))
    /\ ~IsNil(Deref(LastMessage.ReplyToMessage).ReplyToMessage)
    /\ Len(ApiCalls) = 1 /\ Len(ApiCalls[1].messages) = 2

\* C8: when the conversion of an allowed message yields no entry, the
\* completion API is not called, the one thing sent is the notice "Failed to
\* get usable chat messages ..." as a reply, and nothing is saved.
C8_NoEntryNoCall ==
    [][ (~Handled /\ (AllowedMessage /\ ~SomeEntry)')
          => /\ (/\ ApiCalls = <<>>
                 /\ Len(Sends) = 1
                 /\ Sends[1].ev = "SendMessage"
                 /\ Sends[1].text = msgNoUsableMessages
                 /\ Sends[1].replyTo = Ptr(LastMessage.MessageID)
                 /\ Saves = <<>>)'
             /\ UNCHANGED <<prompts, generateds>> ]_vars

\* with logging enabled, the files of the message and of the message it
\* replies to could not be downloaded
C8_Witness ==
    /\ AllowedMessage /\ ~SomeEntry /\ db = "open"
    /\ ~IsNil(LastMessage.ReplyToMessage)
    /\ Len(Calls("GetFile")) >= 2
    /\ Len(Sends) = 1

\* the usable message of the update the handler was given
LastUsable == Deref(usableMessageFromUpdate(LastUpdate))

\* the handler of the given command ran for an allowed update
AllowedCommand(handler) ==
    Handled /\ last.handler = handler /\ isAllowed(LastUpdate, allowedUsers)

\* the one thing the handler sent is the given text, as a reply to the message
RepliedWith(text) ==
    /\ Len(Sends) = 1
    /\ Sends[1].ev = "SendMessage"
    /\ Sends[1].text = text
    /\ Sends[1].chat = LastUsable.Chat.ID
    /\ Sends[1].replyTo = Ptr(LastUsable.MessageID)

\* C11: with the log store disabled (no database handle), /stats replies with
\* the message "Database not configured. ...", whatever was handled before.
C11_StatsNotConfigured ==
    (AllowedCommand("stats") /\ db = "nil") => RepliedWith(msgDatabaseNotConfigured)

\* /stats without a log store, after another update was handled
C11_Witness ==
    /\ AllowedCommand("stats") /\ db = "nil" /\ handled >= 2
    /\ RepliedWith(msgDatabaseNotConfigured)

\* C12: with the log store enabled and without rows, /stats replies with the
\* message "Database is empty.".
C12_StatsEmpty ==
    (AllowedCommand("stats") /\ db = "open" /\ prompts = <<>> /\ generateds = <<>>)
        => RepliedWith(msgDatabaseEmpty)

\* the command of a text that begins with one: its first word
CommandOf(text) == <<Head(text)>>

\* C13: a command of an allowed sender that is none of /start, /help, /stats
\* and /count is answered with "Not a supported bot command: " and the
\* command, without its arguments.
C13_UnsupportedCommandEchoed ==
    AllowedCommand("nosuch")
        => RepliedWith(msgCmdNotSupported \o CommandOf(Deref(LastUsable.Text)))

\* /foo with an argument was answered with "Not a supported bot command: /foo"
C13_Witness ==
    /\ AllowedCommand("nosuch")
    /\ Len(Deref(LastUsable.Text)) > 1
    /\ RepliedWith(Lit("Not a supported bot command: ") \o Lit("/foo"))

\* the update carries a message, new or edited
CarriesMessage == Handled /\ (HasMessage(LastUpdate) \/ HasEditedMessage(LastUpdate))

LastCarried ==
    IF HasMessage(LastUpdate) THEN Deref(LastUpdate.Message)
    ELSE Deref(LastUpdate.EditedMessage)

\* the handler got neither a text nor the content of a file: the message has
\* no text and no file of it was downloaded
NoTextNoFile ==
    /\ ~HasText(LastCarried)
    /\ \A i \in 1..Len(last.trace) : ~(last.trace[i].ev = "HttpGet" /\ last.trace[i].ok)

PollFailed ==
    \E i \in 1..Len(last.trace) : last.trace[i] = LogEvent("failed to poll updates")

\* C14: an allowed message with neither a usable text nor a usable file is
\* answered with "Not a supported message type.", by whichever of the message
\* handler and the handler of the other updates is given it.
C14_UnsupportedTypeReply ==
    (CarriesMessage /\ last.handler \in {"message", "update"} /\ ~PollFailed
        /\ isAllowed(LastUpdate, allowedUsers) /\ NoTextNoFile)
        => /\ Len(Sends) = 1
           /\ Sends[1].ev = "SendMessage"
           /\ Sends[1].text = msgTypeNotSupported
           /\ Sends[1].chat = LastCarried.Chat.ID
           /\ Sends[1].replyTo = Ptr(LastCarried.MessageID)

\* the arguments of a command's text: what follows the command and the blank
ArgsOf(text) == IF Len(text) <= 2 THEN <<>> ELSE SubSeq(text, 3, Len(text))

LastArgs == ArgsOf(Deref(LastUsable.Text))

Encodes == Calls("Encode")

Started == pc # "main"

ConfigLoaded == Len(osArgs) > 1 /\ confFile.readable /\ ~IsNil(confFile.json)

\* C16: runBot is called only when a config path is given and the config
\* file is read and parsed; without argument main prints the usage and
\* returns, and when the config cannot be loaded it logs the failure and
\* returns, in both cases without calling runBot.
C16_LaunchedOnlyWithConfig ==
    /\ launched => ConfigLoaded
    /\ (Started /\ ConfigLoaded) => launched
    /\ (Started /\ Len(osArgs) <= 1)
         => pc = "exited" /\ ~crashed /\ out = printUsage
    /\ (Started /\ Len(osArgs) > 1 /\ ~ConfigLoaded)
         => pc = "exited" /\ ~crashed /\ out = <<LogEvent("failed to load config")>>

\* a config file that does not parse: main logged and returned
C16_Witness ==
    /\ pc = "exited" /\ Len(osArgs) > 1 /\ confFile.readable /\ IsNil(confFile.json)
    /\ ~launched /\ out = <<LogEvent("failed to load config")>>

\* the completion succeeded and the answer, the first thing sent, did not go through
AnswerNotDelivered ==
    /\ AllowedMessage
    /\ Len(ApiCalls) = 1 /\ ApiCalls[1].ok
    /\ Sends # <<>> /\ ~Sends[1].ok

\* C17: with logging enabled, when the completion succeeds and the delivery
\* of the answer fails, one pair is saved with the prompt-token usage of the
\* API on the prompt, and successful = false and zero tokens on the result;
\* when the completion fails the pair saved has a prompt-token count of 0.
C17_FailureTokensSaved ==
    /\ (AnswerNotDelivered /\ db = "open")
         => /\ Len(Saves) = 1
            /\ Saves[1].prompt.Tokens = ApiCalls[1].result.response.Usage.PromptTokens
            /\ ~Saves[1].prompt.Result.Successful
            /\ Saves[1].prompt.Result.Tokens = 0
    /\ (AllowedMessage /\ db = "open" /\ ApiCalls # <<>> /\ ~ApiCalls[1].ok)
         => /\ Len(Saves) = 1
            /\ Saves[1].prompt.Tokens = 0

\* C18: when the answer (text or file) cannot be sent, exactly one notice of
\* the failure is sent, to the same chat and as a reply to the original
\* message; when the notice cannot be sent either, that is logged and
\* nothing more is sent.
C18_OneFailureNotice ==
    AnswerNotDelivered
        => /\ Len(Sends) = 2
           /\ Sends[2].ev = "SendMessage"
           /\ Sends[2].text = (IF Sends[1].ev = "SendDocument" THEN msgFailedFile
                               ELSE msgFailedText)
           /\ Sends[2].chat = LastMessage.Chat.ID
           /\ Sends[1].chat = LastMessage.Chat.ID
           /\ Sends[2].replyTo = Ptr(LastMessage.MessageID)
           /\ ~Sends[2].ok
                => Len(SelectSeq(last.trace,
                                 LAMBDA x : x = LogEvent("failed to send message"))) = 1

\* neither the file nor the notice of its failure could be sent
C18_Witness ==
    /\ AnswerNotDelivered
    /\ Sends[1].ev = "SendDocument"
    /\ Len(Sends) = 2 /\ ~Sends[2].ok

\* what was relayed as the answer: the text of the message or the file
Relayed == IF Sends[1].ev = "SendDocument" THEN Sends[1].file ELSE Sends[1].text

\* C20: after a successful completion the answer relayed is the text of the
\* first choice; without any choice it is "There was no response from OpenAI
\* API.", and the request is still saved as one pair (with logging enabled).
C20_FirstChoiceOrPlaceholder ==
    (AllowedMessage /\ Len(ApiCalls) = 1 /\ ApiCalls[1].ok)
        => LET choices == ApiCalls[1].result.response.Choices
           IN  /\ Sends # <<>>
               /\ IF Len(choices) > 0
                  THEN Relayed = (IF IsNil(choices[1].Message.Content) THEN <<>>
                                  ELSE Deref(choices[1].Message.Content))
                  ELSE /\ Relayed = msgNoResponse
                       /\ db = "open" => Len(Saves) = 1

\* the message comes from a bot's account, or was sent via a bot
FromBot(m) == m.From.IsBot \/ (~IsNil(m.ViaBot) /\ Deref(m.ViaBot).IsBot)

RoleFor(m) == IF FromBot(m) THEN "assistant" ELSE "user"

\* C19: an entry is tagged "assistant" when its message comes from a bot, the
\* bot's own earlier answer that is replied to included, and "user"
\* otherwise.
C19_RoleByOrigin ==
    (AllowedMessage /\ HasText(LastMessage) /\ ~IsNil(LastMessage.ReplyToMessage)
        /\ HasText(Deref(LastMessage.ReplyToMessage)))
        => /\ Len(ApiCalls) = 1
           /\ Len(ApiCalls[1].messages) = 2
           /\ ApiCalls[1].messages[1].Role = RoleFor(Deref(LastMessage.ReplyToMessage))
           /\ ApiCalls[1].messages[2].Role = RoleFor(LastMessage)

Inits == SelectSeq(tkLog, LAMBDA x : x.ev = "init")

\* C22: a failed initialisation of the tokenizer is surfaced as an error (the
\* reply of /count is the error's text and nothing is encoded), and after a
\* failed initialisation no later call initialises again.
C22_InitFailureNotRetried ==
    /\ (AllowedCommand("count") /\ Calls("GetTokenizerWithEncoding") # <<>>
            /\ ~Calls("GetTokenizerWithEncoding")[1].ok)
         => /\ RepliedWith(Lit("tokenizer is not initialized."))
            /\ Encodes = <<>>
    /\ \A i \in 1..Len(Inits) : ~Inits[i].ok => i = Len(Inits)

\* C21: when /count handlers run concurrently with the tokenizer not yet
\* initialised, the tokenizer is initialised successfully at most once, the
\* instance stored is never overwritten, and every call that encodes uses
\* the instance stored first.
C21_FirstInitialisationWins ==
    /\ Len(SelectSeq(tkLog, LAMBDA x : x.ev = "init" /\ x.ok)) <= 1
    /\ Len(Stores) <= 1
    /\ \A g \in DOMAIN counting :
          (counting[g].pc = "done" /\ counting[g].used # 0)
              => counting[g].used = Stores[1].by

\* the message and the message it replies to, when there is one
LastParent == Deref(LastMessage.ReplyToMessage)

HasParent == ~IsNil(LastMessage.ReplyToMessage)

Converting == {LastMessage} \cup (IF HasParent THEN {LastParent} ELSE {})

\* the lookups of a file (GetFile), in order
GetFilesOf(fileID) ==
    SelectSeq(last.trace, LAMBDA x : x.ev = "GetFile" /\ x.fileID = fileID)

\* the file was looked up and then downloaded
Downloaded(fileID) ==
    \E i \in 1..(Len(last.trace) - 1) :
        /\ last.trace[i].ev = "GetFile" /\ last.trace[i].fileID = fileID /\ last.trace[i].ok
        /\ last.trace[i + 1].ev = "HttpGet" /\ last.trace[i + 1].ok

\* the message gives an entry: it has a text, or its file was downloaded
Converted(m) ==
    HasText(m) \/ (HasDocument(m) /\ Downloaded(Deref(m.Document).FileID))

\* C23: the conversion of one message looks its file up and downloads it at
\* most once, and not at all when the message has a text.
C23_AtMostOneDownload ==
    AllowedMessage
        => /\ \A m \in Converting :
                 HasDocument(m)
                    => /\ Len(GetFilesOf(Deref(m.Document).FileID)) <= 1
                       /\ HasText(m) => GetFilesOf(Deref(m.Document).FileID) = <<>>
           /\ Len(Calls("HttpGet"))
                <= Cardinality({m \in Converting : HasDocument(m) /\ ~HasText(m)})

SentViaBot(m) == ~IsNil(m.ViaBot) /\ Deref(m.ViaBot).IsBot

\* the request's entry of the message, and of the message it replies to
EntryOfMessage == ApiCalls[1].messages[Len(ApiCalls[1].messages)]

EntryOfParent == ApiCalls[1].messages[1]

\* C26: a message sent via a bot never gives an entry of role "user": it
\* gives an entry of role "assistant" or none, also when reading its file
\* fails.
C26_ViaBotNeverUser ==
    (AllowedMessage /\ ApiCalls # <<>>)
        => /\ (SentViaBot(LastMessage) /\ Converted(LastMessage))
                 => EntryOfMessage.Role = "assistant"
           /\ (HasParent /\ SentViaBot(LastParent) /\ Converted(LastParent))
                 => EntryOfParent.Role = "assistant"

\* the content of the entry a message converts to (a *string)
ContentOf(m) ==
    IF HasText(m) THEN m.Text ELSE Ptr(TrimSpace(ToValidUTF8(FileBytes, Lit("?"))))

\* C30: for a message that replies to another, the completion API is called
\* exactly when one of the two converts; the request is the message alone
\* when only it converts, the replied-to message alone when only that one
\* converts, and both when both do.
C30_CallIffSomeConverts ==
    (AllowedMessage /\ HasParent)
        => /\ (ApiCalls # <<>>) <=> (Converted(LastParent) \/ Converted(LastMessage))
           /\ (~Converted(LastParent) /\ Converted(LastMessage))
                 => /\ Len(ApiCalls[1].messages) = 1
                    /\ EntryOfMessage.Content = ContentOf(LastMessage)
           /\ (Converted(LastParent) /\ ~Converted(LastMessage))
                 => /\ Len(ApiCalls[1].messages) = 1
                    /\ EntryOfParent.Content = ContentOf(LastParent)
           /\ (Converted(LastParent) /\ Converted(LastMessage))
                 => Len(ApiCalls[1].messages) = 2

\* the file of the replied-to message could not be read and the request is
\* the text of the message alone
C30_Witness ==
    /\ AllowedMessage /\ HasParent
    /\ HasDocument(LastParent) /\ ~Converted(LastParent)
    /\ HasText(LastMessage)
    /\ Len(ApiCalls) = 1 /\ Len(ApiCalls[1].messages) = 1
    /\ ApiCalls[1].messages[1].Content = Ptr(Lit("B"))

\* C24: rows once stored are never changed or removed: a step leaves the
\* tables as they are or appends one pair, that of its one successful save,
\* and /stats leaves them as they are.
C24_StoreOnlyGrows ==
    [][ /\ Len(prompts') >= Len(prompts)
        /\ SubSeq(prompts', 1, Len(prompts)) = prompts
        /\ Len(generateds') >= Len(generateds)
        /\ SubSeq(generateds', 1, Len(generateds)) = generateds
        /\ Len(prompts') - Len(prompts) = Len(generateds') - Len(generateds)
        /\ Len(prompts') - Len(prompts) <= 1
        /\ Len(prompts') > Len(prompts)
             => /\ Len(Saves') = 1 /\ Saves'[1].ok
                /\ PairStoredIn(prompts', generateds', Saves'[1])
        /\ last'.handler = "stats" => UNCHANGED <<prompts, generateds>> ]_vars

\* a second pair was stored after the first
C24_Witness ==
    /\ Handled /\ Len(Saves) = 1 /\ Saves[1].ok
    /\ Len(prompts) = 2 /\ Len(generateds) = 2
    /\ prompts[1].ID = 1 /\ generateds[1].PromptID = 1
    /\ PairStored(Saves[1])

\* C25: handling an allowed message never ends in a run-time fault, whatever
\* the outcomes of the completion and of the delivery, with or without
\* logging.
C25_NoRuntimeFault ==
    AllowedMessage => ~last.panicked /\ Calls("panic") = <<>>

CommandHandlers == {"start", "help", "stats", "count", "nosuch"}

\* C27: the handler of a command never calls the completion API, never
\* writes to the log store, and sends at most one message.
C27_CommandsOnlyReply ==
    [][ (~Handled /\ Handled' /\ last'.handler \in CommandHandlers)
          => /\ ApiCalls' = <<>>
             /\ Saves' = <<>>
             /\ Calls("SendDocument")' = <<>>
             /\ Len(Sends') <= 1
             /\ UNCHANGED <<prompts, generateds>> ]_vars

\* /count was answered while the log store holds a pair
C27_Witness ==
    /\ AllowedCommand("count") /\ db = "open"
    /\ Len(prompts) = 1
    /\ Len(Sends) = 1 /\ Saves = <<>>

\* the database has a path and could not be opened
OpenFailed ==
    /\ dbFilepath # ""
    /\ \E i \in 1..Len(out) : out[i] = LogEvent("failed to open request logs db")

\* C28: when the log store has a path and cannot be opened, the bot runs
\* with logging disabled: nothing is ever saved and /stats replies with the
\* message "Database not configured. ...".
C28_RunsWithoutStore ==
    OpenFailed
        => /\ launched /\ pc # "exited" /\ db = "nil"
           /\ prompts = <<>> /\ generateds = <<>>
           /\ Handled => Saves = <<>>
           /\ AllowedCommand("stats") => RepliedWith(msgDatabaseNotConfigured)

\* with a database that could not be opened, a message was answered and
\* nothing was saved
C28_Witness ==
    /\ OpenFailed
    /\ AllowedMessage /\ AnswerDelivered
    /\ Saves = <<>> /\ prompts = <<>>

\* the reply of /stats has the line of the given label
HasStat(text, label) == \E i \in 1..(Len(text) - 1) : <<text[i]>> = Lit(label)

\* the count on that line
StatOf(text, label) ==
    LET i == CHOOSE i \in 1..(Len(text) - 1) : <<text[i]>> = Lit(label)
    IN  text[i + 1].k

\* C29: in the reply of /stats, with logging enabled, the count of
\* completions plus the count of errors is the number of stored prompts, and
\* the count of prompts is the number of stored prompts with more than 0
\* tokens (those of failed completions are not counted).
C29_StatsCounts ==
    (AllowedCommand("stats") /\ db = "open" /\ Sends # <<>>)
        => LET t == Sends[1].text
           IN  /\ (HasStat(t, "* Completions: <b>") /\ HasStat(t, "* Errors: <b>"))
                     => StatOf(t, "* Completions: <b>") + StatOf(t, "* Errors: <b>")
                          = Len(prompts)
               /\ HasStat(t, "* Prompts: <b>")
                     => StatOf(t, "* Prompts: <b>")
                          = Cardinality({i \in 1..Len(prompts) : prompts[i].Tokens > 0})

\* /stats after a failed completion was logged: no prompt counted, one error
C29_Witness ==
    /\ AllowedCommand("stats") /\ db = "open" /\ Sends # <<>>
    /\ Len(prompts) = 1 /\ prompts[1].Tokens = 0
    /\ HasStat(Sends[1].text, "* Prompts: <b>")
    /\ StatOf(Sends[1].text, "* Prompts: <b>") = 0
    /\ HasStat(Sends[1].text, "* Completions: <b>")
    /\ HasStat(Sends[1].text, "* Errors: <b>")
    /\ StatOf(Sends[1].text, "* Errors: <b>") = 1

====
